---- MODULE Spec2Model ----
(***************************************************************************)
(* Model of io-oauth (OAuth 2.0 authorization code grant, sans I/O).       *)
(*                                                                         *)
(*   Spec        the authorization-code flow of examples/                  *)
(*               authorization-code-grant.rs driving SendAccessTokenRequest*)
(*               and the same driver loop driving RefreshAccessToken       *)
(*   SpecExpiry  IssueAccessTokenSuccessParams::sync_expires_in under a    *)
(*               wall clock that may step backwards                        *)
(*   SpecPkce    PkceCodeVerifier::new                                     *)
(***************************************************************************)
EXTENDS Integers, Sequences, FiniteSets, TLC

VARIABLES
    \* --- authorization-code flow (examples/authorization-code-grant.rs) ---
    flow,          \* "code": main of the example; "refresh": a refresh attempt
    pc,            \* position of the caller
    issued,        \* request_params.state, the state issued in the authorization request
    callback,      \* query of the redirected URI typed by the user
    respParams,    \* response_params, the parsed callback
    panicMsg,      \* message of the panic that ended the caller, "" if none
    \* --- coroutine (SendAccessTokenRequest / RefreshAccessToken over Send) ---
    co,            \* the coroutine: [built, kind, send, request]
    arg,           \* the caller's `arg`: the I/O result fed to the next resume
    pendingIo,     \* the I/O request the last resume returned, "none" if none
    result,        \* what the last resume returned
    ioCount,       \* number of I/O requests the coroutine has emitted
    trips,         \* number of I/O results fed back through resume
    delivered,     \* the complete HTTP response the transport delivered
    \* --- token expiry (issue-access-token.rs) ---
    params,        \* IssueAccessTokenSuccessParams: [expires_in, issued_at]
    now,           \* SystemTime::now(), in ticks
    lastSync,      \* record of the last sync_expires_in call
    origExpires,   \* expires_in as deserialized
    skewed,        \* TRUE once the clock has stepped backwards
    \* --- PKCE (pkce.rs) ---
    verifier,      \* the last PkceCodeVerifier built: [made, size, bytes]
    pkceOp,        \* the constructor that built it
    parse,         \* the last text parsed into a verifier and its outcome
    challenge,     \* a PkceCodeChallenge: [made, method, verifier]
    encoded,       \* the last PkceCodeChallenge::encode call
    \* --- request encoding (authorization-request.rs, access-token-request.rs,
    \*     refresh-access-token.rs) ---
    stage,         \* which requests of the flow have been encoded
    authReq,       \* AuthorizationRequestParams and its encoded query
    tokenReq,      \* AccessTokenRequestParams and its encoded body
    refreshReq     \* RefreshAccessTokenParams and its encoded body

flowVars   == <<flow, pc, issued, callback, respParams, panicMsg,
                co, arg, pendingIo, result, ioCount, trips, delivered>>
expiryVars == <<params, now, lastSync, origExpires, skewed>>
pkceVars   == <<verifier, pkceOp, parse, challenge, encoded>>
encVars    == <<stage, authReq, tokenReq, refreshReq>>
vars       == <<flow, pc, issued, callback, respParams, panicMsg,
                co, arg, pendingIo, result, ioCount, trips, delivered,
                params, now, lastSync, origExpires, skewed,
                verifier, pkceOp, parse, challenge, encoded,
                stage, authReq, tokenReq, refreshReq>>

(***************************************************************************)
(* Bounds                                                                  *)
(***************************************************************************)
MaxReads == 2
MaxTick == 6
MaxExpires == 3
MaxSeed == 1
MaxTextLen == 3
MaxEncodes == 2
MaxScope == 2
TicksPerSec == 2

(***************************************************************************)
(* Option values                                                           *)
(***************************************************************************)
NoState == "<none>"
StateValues == {"abc", "xyz"}

Min(a, b) == IF a <= b THEN a ELSE b
Max(a, b) == IF a >= b THEN a ELSE b

(***************************************************************************)
(* Token endpoint responses (issue-access-token.rs)                        *)
(***************************************************************************)
Statuses == {199, 200, 204, 299, 300, 400, 401, 500}

\* http::StatusCode::is_success: 200 <= status < 300
is_success(status) == status >= 200 /\ status < 300

\* the six variants of IssueAccessTokenErrorCode, as serde names them
\* (rename_all = "snake_case")
IssueAccessTokenErrorCode ==
    [invalid_client |-> "InvalidClient", invalid_grant |-> "InvalidGrant",
     invalid_request |-> "InvalidRequest", invalid_scope |-> "InvalidScope",
     unauthorized_client |-> "UnauthorizedClient",
     unsupported_grant_type |-> "UnsupportedGrantType"]

\* A response body.  json = FALSE is a body that is not a JSON object.  Each
\* member is "absent", well-typed ("str", "num", or the text of the error
\* member) or "bad" (a JSON value of the wrong type).
NotJson ==
    [json |-> FALSE, access_token |-> "absent", token_type |-> "absent",
     expires_in |-> "absent", error |-> "absent", error_description |-> "absent"]

JsonBodies ==
    [json : {TRUE},
     access_token : {"absent", "str"},
     token_type : {"absent", "str"},
     expires_in : {"absent", "num", "bad"},
     error : {"absent", "invalid_client", "invalid_grant", "invalid_request",
              "invalid_scope", "unauthorized_client", "unsupported_grant_type",
              "access_denied", "bad"},
     error_description : {"absent", "str"}]

Bodies == JsonBodies \cup {NotJson}

Responses == [status : Statuses, body : Bodies]

NoResponse == [status |-> 0, body |-> NotJson]

\* the expires_in a well-typed "num" member stands for
ExpiresSample == MaxExpires

\* serde_json::from_slice::<IssueAccessTokenSuccessParams>: access_token and
\* token_type are required strings, expires_in is an optional usize,
\* members the struct does not name are ignored
DeserializeSuccessParams(body) ==
    IF /\ body.json
       /\ body.access_token = "str"
       /\ body.token_type = "str"
       /\ body.expires_in \in {"absent", "num"}
    THEN [ok |-> TRUE,
          v |-> [access_token |-> "AT", token_type |-> "Bearer",
                 expires_in |-> IF body.expires_in = "num"
                                THEN [some |-> TRUE, v |-> ExpiresSample]
                                ELSE [some |-> FALSE, v |-> 0]]]
    ELSE [ok |-> FALSE, v |-> "serde_json::Error"]

\* variant: any text is taken as an error code
DeserializeErrorParams_AnyCode(body) ==
    IF /\ body.json
       /\ body.error \notin {"absent", "bad"}
    THEN [ok |-> TRUE,
          v |-> [error |-> IF body.error \in DOMAIN IssueAccessTokenErrorCode
                           THEN IssueAccessTokenErrorCode[body.error]
                           ELSE body.error,
                 error_description |-> body.error_description]]
    ELSE [ok |-> FALSE, v |-> "serde_json::Error"]

\* serde_json::from_slice::<IssueAccessTokenErrorParams>: error is required
\* and must name a variant of IssueAccessTokenErrorCode
DeserializeErrorParams(body) ==
    IF /\ body.json
       /\ body.error \in DOMAIN IssueAccessTokenErrorCode
    THEN [ok |-> TRUE,
          v |-> [error |-> IssueAccessTokenErrorCode[body.error],
                 error_description |-> body.error_description]]
    ELSE [ok |-> FALSE, v |-> "serde_json::Error"]

(***************************************************************************)
(* The coroutines                                                          *)
(***************************************************************************)
NoArg == [kind |-> "none", complete |-> FALSE, response |-> NoResponse]

FreshSend == [st |-> "Built", pending |-> "none", reads |-> 0]

\* the HTTP request a coroutine was built from: its Content-Type header and
\* its body, the pairs of the encoded parameter struct
NoHttpRequest == [content_type |-> "", body |-> <<>>]

NoCoroutine ==
    [built |-> FALSE, kind |-> "none", send |-> FreshSend,
     request |-> NoHttpRequest]

\* io_http::v1_1::coroutines::Send::resume, the HTTP framer the coroutines
\* wrap.  Built: emits the request bytes to write.  AwaitingIO: takes the
\* result of the I/O last requested; once the request is written it asks for
\* reads until the response is complete, then returns it.
Send_resume(send, input) ==
    CASE send.st = "Built" ->
           [send |-> [st |-> "AwaitingIO", pending |-> "write", reads |-> 0],
            ok |-> FALSE, io |-> "write", response |-> NoResponse]
      [] send.st = "AwaitingIO" /\ send.pending = "write" /\ input.kind = "write" ->
           [send |-> [st |-> "AwaitingIO", pending |-> "read", reads |-> 0],
            ok |-> FALSE, io |-> "read", response |-> NoResponse]
      [] send.st = "AwaitingIO" /\ send.pending = "read" /\ input.kind = "read" ->
           IF input.complete
           THEN [send |-> [st |-> "Complete", pending |-> "none",
                           reads |-> send.reads + 1],
                 ok |-> TRUE, io |-> "none", response |-> input.response]
           ELSE [send |-> [st |-> "AwaitingIO", pending |-> "read",
                           reads |-> send.reads + 1],
                 ok |-> FALSE, io |-> "read", response |-> NoResponse]

NoResult == [tag |-> "none", status |-> 0, v |-> "none"]

\* variant: the shape of the body alone selects the outcome
SendAccessTokenRequest_resume_ByShape(send, input) ==
    LET r == Send_resume(send, input)
    IN  IF ~r.ok
        THEN [send |-> r.send, out |-> [tag |-> "io", status |-> 0, v |-> r.io]]
        ELSE [send |-> r.send,
              out |-> LET res == DeserializeSuccessParams(r.response.body)
                          err == DeserializeErrorParams(r.response.body)
                      IN  IF res.ok
                          THEN [tag |-> "success", status |-> r.response.status, v |-> res.v]
                          ELSE IF err.ok
                          THEN [tag |-> "grant_error", status |-> r.response.status, v |-> err.v]
                          ELSE [tag |-> "parse_error", status |-> r.response.status, v |-> err.v]]

\* variant: the framer's I/O request is dropped and an empty response is
\* classified instead
SendAccessTokenRequest_resume_NoSuspend(send, input) ==
    LET r == Send_resume(send, input)
        res == DeserializeErrorParams(r.response.body)
    IN  IF ~r.ok
        THEN [send |-> r.send,
              out |-> [tag |-> "parse_error", status |-> r.response.status, v |-> res.v]]
        ELSE [send |-> r.send,
              out |-> [tag |-> "parse_error", status |-> r.response.status, v |-> res.v]]

\* variant: the response of the framer is dropped and the caller is left
\* with a request for no I/O at all
SendAccessTokenRequest_resume_DropResponse(send, input) ==
    LET r == Send_resume(send, input)
    IN  IF ~r.ok
        THEN [send |-> r.send, out |-> [tag |-> "io", status |-> 0, v |-> r.io]]
        ELSE [send |-> r.send, out |-> [tag |-> "io", status |-> 0, v |-> "none"]]

\* SendAccessTokenRequest::resume: `self.0.resume(input)?` hands the framer's
\* I/O request to the caller, otherwise the response is classified
SendAccessTokenRequest_resume(send, input) ==
    LET r == Send_resume(send, input)
    IN  IF ~r.ok
        THEN [send |-> r.send, out |-> [tag |-> "io", status |-> 0, v |-> r.io]]
        ELSE [send |-> r.send,
              out |-> IF is_success(r.response.status)
                      THEN LET res == DeserializeSuccessParams(r.response.body)
                           IN  IF res.ok
                               THEN [tag |-> "success", status |-> r.response.status, v |-> res.v]
                               ELSE [tag |-> "parse_error", status |-> r.response.status, v |-> res.v]
                      ELSE LET res == DeserializeErrorParams(r.response.body)
                           IN  IF res.ok
                               THEN [tag |-> "grant_error", status |-> r.response.status, v |-> res.v]
                               ELSE [tag |-> "parse_error", status |-> r.response.status, v |-> res.v]]

\* RefreshAccessToken::resume
RefreshAccessToken_resume(send, input) ==
    LET r == Send_resume(send, input)
    IN  IF ~r.ok
        THEN [send |-> r.send, out |-> [tag |-> "io", status |-> 0, v |-> r.io]]
        ELSE [send |-> r.send,
              out |-> IF is_success(r.response.status)
                      THEN LET res == DeserializeSuccessParams(r.response.body)
                           IN  IF res.ok
                               THEN [tag |-> "success", status |-> r.response.status, v |-> res.v]
                               ELSE [tag |-> "parse_error", status |-> r.response.status, v |-> res.v]
                      ELSE LET res == DeserializeErrorParams(r.response.body)
                           IN  IF res.ok
                               THEN [tag |-> "grant_error", status |-> r.response.status, v |-> res.v]
                               ELSE [tag |-> "parse_error", status |-> r.response.status, v |-> res.v]]

(***************************************************************************)
(* The authorization-code flow: main of the example                        *)
(***************************************************************************)
\* the query of a redirected URI: each parameter is present or "absent"
Callbacks ==
    [code : {"absent", "c1"},
     error : {"absent", "access_denied"},
     state : StateValues \cup {NoState}]

NoCallback == [code |-> "absent", error |-> "absent", state |-> NoState]

NoParams == [ok |-> FALSE, kind |-> "none", code |-> "absent",
             error |-> "absent", state |-> NoState]

\* State::new: a fresh opaque token
State_new == StateValues

\* AuthorizationResponseParams::from_url: a code with the returned state, or
\* an error with the returned state; MalformedCallback when the query has
\* neither.  The returned state is surfaced, never compared.
from_url(cb) ==
    IF cb.error # "absent"
    THEN [ok |-> TRUE, kind |-> "error", code |-> "absent",
          error |-> cb.error, state |-> cb.state]
    ELSE IF cb.code # "absent"
    THEN [ok |-> TRUE, kind |-> "code", code |-> cb.code,
          error |-> "absent", state |-> cb.state]
    ELSE [ok |-> FALSE, kind |-> "MalformedCallback", code |-> "absent",
          error |-> "absent", state |-> NoState]

\* variant: a callback without a state is let through
StatesMismatch_SkipMissing(requested, returned) ==
    returned # NoState /\ requested # returned

\* `request_params.state != response_params.state`
StatesMismatch(requested, returned) == requested # returned

Panic(msg) ==
    /\ pc' = "panicked"
    /\ panicMsg' = msg

\* 1. authorization request: request_params carries a fresh state
BuildAuthorizationRequest ==
    /\ flow = "code"
    /\ pc = "start"
    /\ \E s \in State_new : issued' = s
    /\ pc' = "await_redirect"
    /\ UNCHANGED <<flow, callback, respParams, panicMsg, co, arg, pendingIo,
                   result, ioCount, trips, delivered>>
    /\ UNCHANGED <<expiryVars, pkceVars, encVars>>

\* variant: the parse is not unwrapped, a callback with neither a code nor
\* an error goes on as a response
ParseRedirectedUri_NoUnwrap ==
    /\ flow = "code"
    /\ pc = "await_redirect"
    /\ \E cb \in Callbacks :
          /\ callback' = cb
          /\ LET r == from_url(cb)
             IN  IF r.kind # "error"
                 THEN /\ respParams' = [r EXCEPT !.ok = TRUE, !.kind = "code",
                                                !.state = cb.state]
                      /\ pc' = "parsed"
                      /\ UNCHANGED panicMsg
                 ELSE /\ respParams' = r
                      /\ Panic("from_url")
    /\ UNCHANGED <<flow, issued, co, arg, pendingIo, result, ioCount, trips,
                   delivered>>
    /\ UNCHANGED <<expiryVars, pkceVars, encVars>>

\* 2. authorization response: the redirected URI is read and parsed;
\* main unwraps the parse and needs a code to go on
ParseRedirectedUri ==
    /\ flow = "code"
    /\ pc = "await_redirect"
    /\ \E cb \in Callbacks :
          /\ callback' = cb
          /\ LET r == from_url(cb)
             IN  IF r.ok /\ r.kind = "code"
                 THEN /\ respParams' = r
                      /\ pc' = "parsed"
                      /\ UNCHANGED panicMsg
                 ELSE /\ respParams' = r
                      /\ Panic("from_url")
    /\ UNCHANGED <<flow, issued, co, arg, pendingIo, result, ioCount, trips,
                   delivered>>
    /\ UNCHANGED <<expiryVars, pkceVars, encVars>>

\* `if request_params.state != response_params.state { panic!(...) }`
CheckState ==
    /\ flow = "code"
    /\ pc = "parsed"
    /\ IF StatesMismatch(issued, respParams.state)
       THEN Panic("states mismatch")
       ELSE /\ pc' = "checked"
            /\ UNCHANGED panicMsg
    /\ UNCHANGED <<flow, issued, callback, respParams, co, arg, pendingIo,
                   result, ioCount, trips, delivered>>
    /\ UNCHANGED <<expiryVars, pkceVars, encVars>>

\* the resume function of the coroutine at hand
Resume(c, input) ==
    IF c.kind = "token"
    THEN SendAccessTokenRequest_resume(c.send, input)
    ELSE RefreshAccessToken_resume(c.send, input)

\* `match send.resume(arg.take())`:
\*   Err(io)     => the I/O request goes to the transport
\*   Ok(Err(_))  => panic!("parse response error")
\*   Ok(Ok(res)) => break res
ResumeStep ==
    /\ pc = "resume"
    /\ co.built
    /\ LET r == Resume(co, arg)
       IN  /\ co' = [co EXCEPT !.send = r.send]
           /\ result' = r.out
           /\ trips' = IF arg.kind # "none" THEN trips + 1 ELSE trips
           /\ arg' = NoArg
           /\ IF r.out.tag = "io"
              THEN /\ pendingIo' = r.out.v
                   /\ ioCount' = ioCount + 1
                   /\ pc' = "handle"
                   /\ UNCHANGED panicMsg
              ELSE /\ pendingIo' = "none"
                   /\ UNCHANGED ioCount
                   /\ IF r.out.tag = "parse_error"
                      THEN Panic("parse response error")
                      ELSE /\ pc' = "result"
                           /\ UNCHANGED panicMsg
    /\ UNCHANGED <<flow, issued, callback, respParams, delivered>>
    /\ UNCHANGED <<expiryVars, pkceVars, encVars>>

\* variant: a failed I/O is swallowed and the coroutine is resumed again
HandleIo_Retry ==
    /\ pc = "handle"
    /\ pendingIo # "none"
    /\ \/ /\ pendingIo = "write"
          /\ arg' = [kind |-> "write", complete |-> FALSE, response |-> NoResponse]
          /\ pc' = "resume"
          /\ UNCHANGED <<panicMsg, delivered>>
       \/ /\ pendingIo = "read"
          /\ co.send.reads + 1 < MaxReads
          /\ arg' = [kind |-> "read", complete |-> FALSE, response |-> NoResponse]
          /\ pc' = "resume"
          /\ UNCHANGED <<panicMsg, delivered>>
       \/ /\ pendingIo = "read"
          /\ \E resp \in Responses :
                /\ arg' = [kind |-> "read", complete |-> TRUE, response |-> resp]
                /\ delivered' = resp
          /\ pc' = "resume"
          /\ UNCHANGED panicMsg
       \/ /\ pendingIo = "read"
          /\ panicMsg' = "io::Error"
          /\ arg' = [kind |-> "read", complete |-> TRUE,
                     response |-> CHOOSE r \in Responses : is_success(r.status)]
          /\ pc' = "resume"
          /\ UNCHANGED delivered
    /\ UNCHANGED <<flow, issued, callback, respParams, co, pendingIo, result,
                   ioCount, trips>>
    /\ UNCHANGED <<expiryVars, pkceVars, encVars>>

\* `handle(&mut stream, io).unwrap()`: the transport performs the requested
\* I/O; its failure panics, its result becomes the next `arg`.  A read
\* delivers the end of the response within MaxReads reads.
HandleIo ==
    /\ pc = "handle"
    /\ pendingIo # "none"
    /\ \/ /\ pendingIo = "write"
          /\ arg' = [kind |-> "write", complete |-> FALSE, response |-> NoResponse]
          /\ pc' = "resume"
          /\ UNCHANGED <<panicMsg, delivered>>
       \/ /\ pendingIo = "read"
          /\ co.send.reads + 1 < MaxReads
          /\ arg' = [kind |-> "read", complete |-> FALSE, response |-> NoResponse]
          /\ pc' = "resume"
          /\ UNCHANGED <<panicMsg, delivered>>
       \/ /\ pendingIo = "read"
          /\ \E resp \in Responses :
                /\ arg' = [kind |-> "read", complete |-> TRUE, response |-> resp]
                /\ delivered' = resp
          /\ pc' = "resume"
          /\ UNCHANGED panicMsg
       \/ /\ Panic("io::Error")
          /\ UNCHANGED <<arg, delivered>>
    /\ UNCHANGED <<flow, issued, callback, respParams, co, pendingIo, result,
                   ioCount, trips>>
    /\ UNCHANGED <<expiryVars, pkceVars, encVars>>

\* 4. access token response: `match res`
MatchResult ==
    /\ pc = "result"
    /\ IF result.tag = "success"
       THEN /\ pc' = "done"
            /\ UNCHANGED panicMsg
       ELSE Panic("get access token error")
    /\ UNCHANGED <<flow, issued, callback, respParams, co, arg, pendingIo,
                   result, ioCount, trips, delivered>>
    /\ UNCHANGED <<expiryVars, pkceVars, encVars>>

InitFlow ==
    /\ flow \in {"code", "refresh"}
    /\ pc = "start"
    /\ issued = NoState
    /\ callback = NoCallback
    /\ respParams = NoParams
    /\ panicMsg = ""
    /\ co = NoCoroutine
    /\ arg = NoArg
    /\ pendingIo = "none"
    /\ result = NoResult
    /\ ioCount = 0
    /\ trips = 0
    /\ delivered = NoResponse

(***************************************************************************)
(* Token expiry tracking (issue-access-token.rs)                           *)
(***************************************************************************)
NoneUsize == [some |-> FALSE, v |-> 0]
SomeUsize(n) == [some |-> TRUE, v |-> n]

\* SystemTime::elapsed: Err when issued_at is later than the clock
elapsed(issued_at, t) ==
    IF t >= issued_at
    THEN [ok |-> TRUE, v |-> t - issued_at]
    ELSE [ok |-> FALSE, v |-> issued_at - t]

\* `elapsed.as_secs() as usize`: the whole seconds of a duration; the cast
\* from u64 keeps the value where usize has 64 bits
as_secs(d) == d \div TicksPerSec

\* variant: the elapsed seconds are subtracted without the `min`
sync_expires_in_NoFloor(p, t) ==
    IF ~p.expires_in.some
    THEN p
    ELSE IF ~elapsed(p.issued_at, t).ok
    THEN p
    ELSE LET secs == as_secs(elapsed(p.issued_at, t).v)
             expires_in == p.expires_in.v
         IN  [p EXCEPT !.expires_in = SomeUsize(expires_in - secs)]

\* variant: an issued_at in the future clears expires_in
sync_expires_in_ClearOnSkew(p, t) ==
    IF ~p.expires_in.some
    THEN p
    ELSE IF ~elapsed(p.issued_at, t).ok
    THEN [p EXCEPT !.expires_in = NoneUsize]
    ELSE LET secs == as_secs(elapsed(p.issued_at, t).v)
             expires_in == p.expires_in.v
         IN  [p EXCEPT !.expires_in = SomeUsize(expires_in - Min(secs, expires_in))]

\* variant: an issued_at in the future counts as that much time elapsed
sync_expires_in_AbsElapsed(p, t) ==
    IF ~p.expires_in.some
    THEN p
    ELSE LET secs == as_secs(elapsed(p.issued_at, t).v)
             expires_in == p.expires_in.v
         IN  [p EXCEPT !.expires_in = SomeUsize(expires_in - Min(secs, expires_in))]

\* IssueAccessTokenSuccessParams::sync_expires_in, called at clock time t
sync_expires_in(p, t) ==
    IF ~p.expires_in.some
    THEN p
    ELSE IF ~elapsed(p.issued_at, t).ok
    THEN p
    ELSE LET secs == as_secs(elapsed(p.issued_at, t).v)
             expires_in == p.expires_in.v
         IN  [p EXCEPT !.expires_in = SomeUsize(expires_in - Min(secs, expires_in))]

NoSync == [called |-> FALSE, at |-> 0, before |-> NoneUsize, repeat |-> FALSE]

\* the wall clock advances
ClockTick ==
    /\ now < MaxTick
    /\ now' = now + 1
    /\ UNCHANGED <<params, lastSync, origExpires, skewed>>
    /\ UNCHANGED <<flowVars, pkceVars, encVars>>

\* the wall clock is set back
ClockStepBack ==
    /\ \E t \in 0..(now - 1) : now' = t
    /\ skewed' = TRUE
    /\ UNCHANGED <<params, lastSync, origExpires>>
    /\ UNCHANGED <<flowVars, pkceVars, encVars>>

\* the caller invokes sync_expires_in
SyncExpiresIn ==
    /\ params' = sync_expires_in(params, now)
    /\ lastSync' = [called |-> TRUE, at |-> now, before |-> params.expires_in,
                    repeat |-> lastSync.called /\ lastSync.at = now]
    /\ UNCHANGED <<now, origExpires, skewed>>
    /\ UNCHANGED <<flowVars, pkceVars, encVars>>

\* issued_at defaults to SystemTime::now() at deserialization
InitExpiry ==
    /\ now \in 0..MaxTick
    /\ \E e \in {NoneUsize} \cup {SomeUsize(n) : n \in 0..MaxExpires} :
          /\ params = [expires_in |-> e, issued_at |-> now]
          /\ origExpires = e
    /\ lastSync = NoSync
    /\ skewed = FALSE

NextExpiry ==
    \/ ClockTick
    \/ ClockStepBack
    \/ SyncExpiresIn

(***************************************************************************)
(* PKCE (pkce.rs)                                                          *)
(***************************************************************************)
\* unreserved = ALPHA / DIGIT / "-" / "." / "_" / "~"
UNRESERVED ==
    [i \in 1..26 |-> 64 + i] \o [i \in 1..26 |-> 96 + i] \o
    [i \in 1..10 |-> 47 + i] \o <<45, 46, 95, 126>>

U8 == 0..255

\* IndexedRandom::choose_multiple: `amount` elements of the slice at
\* distinct indices, all of them when the slice has fewer; the draw of the
\* random source is the offset `seed`
choose_multiple(slice, seed, amount) ==
    LET n == Min(amount, Len(slice))
    IN  [i \in 1..n |-> slice[((seed + i - 1) % Len(slice)) + 1]]

\* PkceCodeVerifier::new
PkceCodeVerifier_new(size, seed) ==
    LET clamped == Min(Max(size, 43), 128)
    IN  choose_multiple(UNRESERVED, seed, clamped)

\* Default for PkceCodeVerifier: choose_multiple_array::<43>, Some because
\* the alphabet has at least 43 elements
PkceCodeVerifier_default(seed) == choose_multiple(UNRESERVED, seed, 43)

\* the texts handed to from_str: every text of at most MaxTextLen bytes over
\* 'a', '~', ' ' and '%', and three longer ones: "abc123", 43 and 129 'a's
TextBytes == {97, 126, 32, 37}

Texts ==
    UNION {[1..n -> TextBytes] : n \in 0..MaxTextLen}
      \cup {<<97, 98, 99, 49, 50, 51>>, [i \in 1..43 |-> 97], [i \in 1..129 |-> 97]}

\* variant: the last offending byte is reported
from_str_LastByte(text) ==
    LET bad == {i \in 1..Len(text) : \A j \in 1..Len(UNRESERVED) : UNRESERVED[j] # text[i]}
    IN  IF bad = {}
        THEN [ok |-> TRUE, bytes |-> text, err |-> 0]
        ELSE [ok |-> FALSE, bytes |-> <<>>,
              err |-> text[CHOOSE i \in bad : \A k \in bad : k <= i]]

\* FromStr for PkceCodeVerifier: the bytes of the text are walked in order,
\* the first one UNRESERVED does not contain is returned as the error
from_str(text) ==
    LET bad == {i \in 1..Len(text) : \A j \in 1..Len(UNRESERVED) : UNRESERVED[j] # text[i]}
    IN  IF bad = {}
        THEN [ok |-> TRUE, bytes |-> text, err |-> 0]
        ELSE [ok |-> FALSE, bytes |-> <<>>,
              err |-> text[CHOOSE i \in bad : \A k \in bad : i <= k]]

\* String::from_utf8_lossy: ASCII bytes are kept, a byte that is not valid
\* UTF-8 on its own becomes U+FFFD (EF BF BD)
RECURSIVE from_utf8_lossy(_)
from_utf8_lossy(bytes) ==
    IF Len(bytes) = 0
    THEN <<>>
    ELSE IF Len(bytes) = 1
    THEN (IF bytes[1] < 128 THEN bytes ELSE <<239, 191, 189>>)
    ELSE LET mid == Len(bytes) \div 2
         IN  from_utf8_lossy(SubSeq(bytes, 1, mid))
               \o from_utf8_lossy(SubSeq(bytes, mid + 1, Len(bytes)))

\* a text: its bytes; the base64url-no-pad text of a SHA-256 digest is kept
\* as the term "b64url_nopad_sha256" over the bytes that were hashed
Text(bytes) == [kind |-> "text", bytes |-> bytes]

\* Sha256::digest followed by BASE64_URL_SAFE_NO_PAD.encode
Base64UrlNoPadSha256(bytes) == [kind |-> "b64url_nopad_sha256", bytes |-> bytes]

\* variant: the two arms of the match are exchanged
PkceCodeChallenge_encode_Swapped(ch) ==
    IF ch.method = "Plain"
    THEN Base64UrlNoPadSha256(ch.verifier)
    ELSE Text(from_utf8_lossy(ch.verifier))

\* PkceCodeChallenge::encode
PkceCodeChallenge_encode(ch) ==
    IF ch.method = "Plain"
    THEN Text(from_utf8_lossy(ch.verifier))
    ELSE Base64UrlNoPadSha256(ch.verifier)

\* PkceCodeChallengeMethod::as_str
as_str(method) == IF method = "Plain" THEN "plain" ELSE "S256"

\* #[default] of PkceCodeChallengeMethod
DefaultMethod == "Sha256"

NoVerifier == [made |-> FALSE, size |-> 0, bytes |-> <<>>]
NoParse == [done |-> FALSE, text |-> <<>>, ok |-> FALSE, err |-> 0]
NoChallenge == [made |-> FALSE, method |-> "none", verifier |-> <<>>, by |-> "none"]
NoEncoded == [calls |-> 0, text |-> Text(<<>>), prev |-> Text(<<>>), of |-> NoChallenge]

PkceNew ==
    /\ ~verifier.made
    /\ ~challenge.made
    /\ \E size \in U8, seed \in 0..MaxSeed :
          verifier' = [made |-> TRUE, size |-> size,
                       bytes |-> PkceCodeVerifier_new(size, seed)]
    /\ pkceOp' = "new"
    /\ parse' = NoParse
    /\ UNCHANGED <<challenge, encoded>>
    /\ UNCHANGED <<flowVars, expiryVars, encVars>>

PkceDefault ==
    /\ ~verifier.made
    /\ ~challenge.made
    /\ \E seed \in 0..MaxSeed :
          verifier' = [made |-> TRUE, size |-> 43,
                       bytes |-> PkceCodeVerifier_default(seed)]
    /\ pkceOp' = "default"
    /\ parse' = NoParse
    /\ UNCHANGED <<challenge, encoded>>
    /\ UNCHANGED <<flowVars, expiryVars, encVars>>

\* `text.parse::<PkceCodeVerifier>()`
PkceFromStr ==
    /\ ~verifier.made
    /\ ~challenge.made
    /\ \E text \in Texts :
          LET r == from_str(text)
          IN  /\ parse' = [done |-> TRUE, text |-> text, ok |-> r.ok, err |-> r.err]
              /\ verifier' = IF r.ok
                             THEN [made |-> TRUE, size |-> Len(text), bytes |-> r.bytes]
                             ELSE NoVerifier
    /\ pkceOp' = "from_str"
    /\ UNCHANGED <<challenge, encoded>>
    /\ UNCHANGED <<flowVars, expiryVars, encVars>>

\* the verifier is dropped
PkceDrop ==
    /\ verifier.made
    /\ verifier' = NoVerifier
    /\ pkceOp' = "none"
    /\ parse' = NoParse
    /\ UNCHANGED <<challenge, encoded>>
    /\ UNCHANGED <<flowVars, expiryVars, encVars>>

\* `PkceCodeChallenge { method, verifier }`: the verifier moves into it
ChallengeNew ==
    /\ verifier.made
    /\ ~challenge.made
    /\ \E method \in {"Plain", "Sha256"} :
          challenge' = [made |-> TRUE, method |-> method,
                        verifier |-> verifier.bytes, by |-> "literal"]
    /\ verifier' = NoVerifier
    /\ pkceOp' = "none"
    /\ parse' = NoParse
    /\ UNCHANGED encoded
    /\ UNCHANGED <<flowVars, expiryVars, encVars>>

\* #[derive(Default)] of PkceCodeChallenge
ChallengeDefault ==
    /\ ~verifier.made
    /\ ~challenge.made
    /\ \E seed \in 0..MaxSeed :
          challenge' = [made |-> TRUE, method |-> DefaultMethod,
                        verifier |-> PkceCodeVerifier_default(seed), by |-> "default"]
    /\ parse' = NoParse
    /\ UNCHANGED <<verifier, pkceOp, encoded>>
    /\ UNCHANGED <<flowVars, expiryVars, encVars>>

\* `challenge.encode()`, which borrows the challenge
ChallengeEncode ==
    /\ challenge.made
    /\ encoded.calls < MaxEncodes
    /\ encoded' = [calls |-> encoded.calls + 1,
                   text |-> PkceCodeChallenge_encode(challenge),
                   prev |-> encoded.text,
                   of |-> challenge]
    /\ UNCHANGED <<verifier, pkceOp, parse, challenge>>
    /\ UNCHANGED <<flowVars, expiryVars, encVars>>

\* the challenge is dropped
ChallengeDrop ==
    /\ challenge.made
    /\ challenge' = NoChallenge
    /\ encoded' = NoEncoded
    /\ UNCHANGED <<verifier, pkceOp, parse>>
    /\ UNCHANGED <<flowVars, expiryVars, encVars>>

InitPkce ==
    /\ verifier = NoVerifier
    /\ pkceOp = "none"
    /\ parse = NoParse
    /\ challenge = NoChallenge
    /\ encoded = NoEncoded

NextPkce ==
    \/ PkceNew
    \/ PkceDefault
    \/ PkceFromStr
    \/ PkceDrop
    \/ ChallengeNew
    \/ ChallengeDefault
    \/ ChallengeEncode
    \/ ChallengeDrop

(***************************************************************************)
(* Request encoding                                                        *)
(***************************************************************************)
\* the literal texts the serializers append
Literal ==
    [code |-> <<99, 111, 100, 101>>,
     authorization_code |-> <<97, 117, 116, 104, 111, 114, 105, 122, 97, 116, 105, 111, 110, 95, 99, 111, 100, 101>>,
     refresh_token |-> <<114, 101, 102, 114, 101, 115, 104, 95, 116, 111, 107, 101, 110>>,
     plain |-> <<112, 108, 97, 105, 110>>,
     S256 |-> <<83, 50, 53, 54>>]

NoneBytes == [some |-> FALSE, v |-> <<>>]
SomeBytes(x) == [some |-> TRUE, v |-> x]

\* url::form_urlencoded::byte_serialize leaves these bytes unchanged:
\* '*' '-' '.' '_', digits and ASCII letters
byte_serialized_unchanged(byte) ==
    \/ byte \in {42, 45, 46, 95}
    \/ byte \in 48..57
    \/ byte \in 65..90
    \/ byte \in 97..122

HexDigit(n) == IF n < 10 THEN 48 + n ELSE 55 + n

\* byte_serialize: ' ' becomes '+', an unchanged byte stays, any other byte
\* becomes %XX in upper-case hexadecimal
RECURSIVE byte_serialize(_)
byte_serialize(bytes) ==
    IF bytes = <<>>
    THEN <<>>
    ELSE LET x == Head(bytes)
         IN  (IF x = 32
              THEN <<43>>
              ELSE IF byte_serialized_unchanged(x)
              THEN <<x>>
              ELSE <<37, HexDigit(x \div 16), HexDigit(x % 16)>>)
               \o byte_serialize(Tail(bytes))

\* the serialized form of a text; the base64url text of a digest has only
\* letters, digits, '-' and '_' and is left as it is
Serialized(text) ==
    IF text.kind = "text" THEN Text(byte_serialize(text.bytes)) ELSE text

\* Serializer::append_pair: the pair joins the output, its value serialized
append_pair(serializer, name, value) ==
    Append(serializer, [k |-> name, v |-> Serialized(value)])

\* the loop that joins the scope tokens: `glue` is "" before the first
\* token and " " before every other one, in the set's enumeration order
RECURSIVE JoinScope(_)
JoinScope(order) ==
    IF order = <<>>
    THEN <<>>
    ELSE IF Len(order) = 1
    THEN order[1]
    ELSE order[1] \o <<32>> \o JoinScope(Tail(order))

\* the enumeration orders a HashSet may give
Orders(set) ==
    {o \in [1..Cardinality(set) -> set] :
        \A i, j \in 1..Cardinality(set) : i # j => o[i] # o[j]}

\* variant: redirect_uri is appended before state
AuthorizationRequestParams_serializer_RedirectFirst(p, order) ==
    LET s0 == append_pair(<<>>, "response_type", Text(Literal.code))
        s1 == append_pair(s0, "client_id", Text(p.client_id))
        s2 == IF p.redirect_uri.some
              THEN append_pair(s1, "redirect_uri", Text(p.redirect_uri.v))
              ELSE s1
        s3 == IF p.state.some
              THEN append_pair(s2, "state", Text(from_utf8_lossy(p.state.v)))
              ELSE s2
        s4 == IF p.scope # {}
              THEN append_pair(s3, "scope", Text(JoinScope(order)))
              ELSE s3
    IN  IF p.pkce_code_challenge.some
        THEN append_pair(
               append_pair(s4, "code_challenge",
                           PkceCodeChallenge_encode(p.pkce_code_challenge)),
               "code_challenge_method",
               Text(Literal[as_str(p.pkce_code_challenge.method)]))
        ELSE s4

\* AuthorizationRequestParams::to_form_url_encoded_serializer, the scope set
\* enumerated in `order`
AuthorizationRequestParams_serializer(p, order) ==
    LET s0 == append_pair(<<>>, "response_type", Text(Literal.code))
        s1 == append_pair(s0, "client_id", Text(p.client_id))
        s2 == IF p.state.some
              THEN append_pair(s1, "state", Text(from_utf8_lossy(p.state.v)))
              ELSE s1
        s3 == IF p.redirect_uri.some
              THEN append_pair(s2, "redirect_uri", Text(p.redirect_uri.v))
              ELSE s2
        s4 == IF p.scope # {}
              THEN append_pair(s3, "scope", Text(JoinScope(order)))
              ELSE s3
    IN  IF p.pkce_code_challenge.some
        THEN append_pair(
               append_pair(s4, "code_challenge",
                           PkceCodeChallenge_encode(p.pkce_code_challenge)),
               "code_challenge_method",
               Text(Literal[as_str(p.pkce_code_challenge.method)]))
        ELSE s4

\* variant: client_id is appended before code
AccessTokenRequestParams_serializer_ClientFirst(p) ==
    LET s0 == append_pair(<<>>, "grant_type", Text(Literal.authorization_code))
        s1 == append_pair(s0, "client_id", Text(p.client_id))
        s2 == append_pair(s1, "code", Text(p.code))
        s3 == IF p.redirect_uri.some
              THEN append_pair(s2, "redirect_uri", Text(p.redirect_uri.v))
              ELSE s2
    IN  IF p.pkce_code_verifier.some
        THEN append_pair(s3, "code_verifier",
                         Text(from_utf8_lossy(p.pkce_code_verifier.v)))
        ELSE s3

\* AccessTokenRequestParams::to_form_url_encoded_serializer
AccessTokenRequestParams_serializer(p) ==
    LET s0 == append_pair(<<>>, "grant_type", Text(Literal.authorization_code))
        s1 == append_pair(s0, "code", Text(p.code))
        s2 == IF p.redirect_uri.some
              THEN append_pair(s1, "redirect_uri", Text(p.redirect_uri.v))
              ELSE s1
        s3 == append_pair(s2, "client_id", Text(p.client_id))
    IN  IF p.pkce_code_verifier.some
        THEN append_pair(s3, "code_verifier",
                         Text(from_utf8_lossy(p.pkce_code_verifier.v)))
        ELSE s3

\* variant: the scope pair is appended for an empty set too
RefreshAccessTokenParams_to_serializer_AlwaysScope(p, order) ==
    LET s0 == append_pair(<<>>, "grant_type", Text(Literal.refresh_token))
        s1 == append_pair(s0, "client_id", Text(p.client_id))
        s2 == append_pair(s1, "refresh_token", Text(p.refresh_token))
    IN  append_pair(s2, "scope", Text(JoinScope(order)))

\* RefreshAccessTokenParams::to_serializer, the scope set enumerated in
\* `order`
RefreshAccessTokenParams_to_serializer(p, order) ==
    LET s0 == append_pair(<<>>, "grant_type", Text(Literal.refresh_token))
        s1 == append_pair(s0, "client_id", Text(p.client_id))
        s2 == append_pair(s1, "refresh_token", Text(p.refresh_token))
    IN  IF p.scopes # {}
        THEN append_pair(s2, "scope", Text(JoinScope(order)))
        ELSE s2

\* what a caller may put in the parameter structs: every field is public
\* and none is validated
ClientIds == {<<99, 105, 100>>, <<97, 38, 61>>}
RedirectUris == {NoneBytes, SomeBytes(<<117, 58, 47>>)}
ScopeTokens == {<<114>>, <<119>>, <<114, 32, 119>>, <<>>}
ScopeSets == {S \in SUBSET ScopeTokens : Cardinality(S) <= MaxScope}
StateBytes == {NoneBytes, SomeBytes(<<97, 98, 99>>), SomeBytes(<<120, 121, 122>>)}
VerifierSamples == {<<97, 98, 99, 49, 50, 51>>, <<126>>}
Codes == {<<99, 49>>, <<47, 43>>}
RefreshTokens == {<<114, 116>>, <<37>>}

NoPkce == [some |-> FALSE, method |-> "none", verifier |-> <<>>]

PkceChallenges ==
    {NoPkce} \cup [some : {TRUE}, method : {"Plain", "Sha256"}, verifier : VerifierSamples]

AuthorizationRequestParams ==
    [client_id : ClientIds, redirect_uri : RedirectUris, scope : ScopeSets,
     state : StateBytes, pkce_code_challenge : PkceChallenges]

AccessTokenRequestParams ==
    [code : Codes, redirect_uri : RedirectUris, client_id : ClientIds,
     pkce_code_verifier : {NoneBytes} \cup {SomeBytes(v) : v \in VerifierSamples}]

RefreshAccessTokenParams ==
    [client_id : ClientIds, refresh_token : RefreshTokens, scopes : ScopeSets]

NoRequest == [made |-> FALSE]

\* `request_params.to_form_url_encoded_string()`
EncodeAuthorizationRequest ==
    /\ stage = "idle"
    /\ \E p \in AuthorizationRequestParams :
          \E order \in Orders(p.scope) :
             authReq' = [made |-> TRUE, p |-> p, order |-> order,
                         query |-> AuthorizationRequestParams_serializer(p, order)]
    /\ stage' = "auth"
    /\ UNCHANGED <<tokenReq, refreshReq>>
    /\ UNCHANGED <<flowVars, expiryVars, pkceVars>>

\* `params.to_string()` for the token request of the same flow
EncodeAccessTokenRequest ==
    /\ stage = "auth"
    /\ \E p \in AccessTokenRequestParams :
          tokenReq' = [made |-> TRUE, p |-> p,
                       body |-> AccessTokenRequestParams_serializer(p)]
    /\ stage' = "token"
    /\ UNCHANGED <<authReq, refreshReq>>
    /\ UNCHANGED <<flowVars, expiryVars, pkceVars>>

\* `params.to_string()` for a refresh request
EncodeRefreshRequest ==
    /\ stage = "idle"
    /\ \E p \in RefreshAccessTokenParams :
          \E order \in Orders(p.scopes) :
             refreshReq' = [made |-> TRUE, p |-> p, order |-> order,
                            body |-> RefreshAccessTokenParams_to_serializer(p, order)]
    /\ stage' = "refresh"
    /\ UNCHANGED <<authReq, tokenReq>>
    /\ UNCHANGED <<flowVars, expiryVars, pkceVars>>

InitEncode ==
    /\ stage = "idle"
    /\ authReq = NoRequest
    /\ tokenReq = NoRequest
    /\ refreshReq = NoRequest

NextEncode ==
    \/ EncodeAuthorizationRequest
    \/ EncodeAccessTokenRequest
    \/ EncodeRefreshRequest

(***************************************************************************)
(* Building the coroutines                                                 *)
(***************************************************************************)
FormContentType == "application/x-www-form-urlencoded"

\* variant: the Content-Type header is left out
SendAccessTokenRequest_new_NoContentType(buildOk, body) ==
    IF buildOk
    THEN [built |-> TRUE, kind |-> "token", send |-> FreshSend,
          request |-> [content_type |-> "",
                       body |-> AccessTokenRequestParams_serializer(body)]]
    ELSE NoCoroutine

\* SendAccessTokenRequest::new: the builder gets the Content-Type header and
\* `body.to_string()` as body; Err when the HTTP request cannot be built,
\* otherwise a coroutine over Send::new(request)
SendAccessTokenRequest_new(buildOk, body) ==
    IF buildOk
    THEN [built |-> TRUE, kind |-> "token", send |-> FreshSend,
          request |-> [content_type |-> FormContentType,
                       body |-> AccessTokenRequestParams_serializer(body)]]
    ELSE NoCoroutine

\* RefreshAccessToken::new, the scope set enumerated in `order`
RefreshAccessToken_new(buildOk, body, order) ==
    IF buildOk
    THEN [built |-> TRUE, kind |-> "refresh", send |-> FreshSend,
          request |-> [content_type |-> FormContentType,
                       body |-> RefreshAccessTokenParams_to_serializer(body, order)]]
    ELSE NoCoroutine

\* the token parameters main builds: the code of the callback, a redirect
\* URI, a client id, no PKCE verifier
FlowTokenParams ==
    {p \in AccessTokenRequestParams :
        /\ p.code = <<99, 49>>
        /\ p.redirect_uri.some
        /\ ~p.pkce_code_verifier.some}

\* the parameters of a refresh attempt
FlowRefreshParams ==
    {p \in RefreshAccessTokenParams :
        /\ p.client_id = <<99, 105, 100>>
        /\ p.refresh_token = <<114, 116>>
        /\ p.scopes \in {{}, {<<114>>}}}

\* 3. access token request: `SendAccessTokenRequest::new(..).unwrap()`,
\* `let mut arg = None`
NewSendAccessTokenRequest ==
    /\ flow = "code"
    /\ pc = "checked"
    /\ \E buildOk \in BOOLEAN, p \in FlowTokenParams :
          LET c == SendAccessTokenRequest_new(buildOk, p)
          IN  /\ tokenReq' = [made |-> TRUE, p |-> p,
                              body |-> AccessTokenRequestParams_serializer(p)]
              /\ IF c.built
                 THEN /\ co' = c
                      /\ arg' = NoArg
                      /\ pc' = "resume"
                      /\ UNCHANGED panicMsg
                 ELSE /\ Panic("http::Error")
                      /\ UNCHANGED <<co, arg>>
    /\ UNCHANGED <<flow, issued, callback, respParams, pendingIo, result,
                   ioCount, trips, delivered>>
    /\ UNCHANGED <<stage, authReq, refreshReq>>
    /\ UNCHANGED <<expiryVars, pkceVars>>

\* a refresh attempt: the coroutine is built and driven by the same loop
NewRefreshAccessToken ==
    /\ flow = "refresh"
    /\ pc = "start"
    /\ \E buildOk \in BOOLEAN, p \in FlowRefreshParams :
          \E order \in Orders(p.scopes) :
             LET c == RefreshAccessToken_new(buildOk, p, order)
             IN  /\ refreshReq' = [made |-> TRUE, p |-> p, order |-> order,
                                   body |-> RefreshAccessTokenParams_to_serializer(p, order)]
                 /\ IF c.built
                    THEN /\ co' = c
                         /\ arg' = NoArg
                         /\ pc' = "resume"
                         /\ UNCHANGED panicMsg
                    ELSE /\ Panic("http::Error")
                         /\ UNCHANGED <<co, arg>>
    /\ UNCHANGED <<flow, issued, callback, respParams, pendingIo, result,
                   ioCount, trips, delivered>>
    /\ UNCHANGED <<stage, authReq, tokenReq>>
    /\ UNCHANGED <<expiryVars, pkceVars>>

NextFlow ==
    \/ BuildAuthorizationRequest
    \/ ParseRedirectedUri
    \/ CheckState
    \/ NewSendAccessTokenRequest
    \/ NewRefreshAccessToken
    \/ ResumeStep
    \/ HandleIo
    \/ MatchResult

(***************************************************************************)
(* Specifications                                                          *)
(***************************************************************************)
IdleFlow ==
    /\ flow = "none"
    /\ pc = "idle"
    /\ issued = NoState
    /\ callback = NoCallback
    /\ respParams = NoParams
    /\ panicMsg = ""
    /\ co = NoCoroutine
    /\ arg = NoArg
    /\ pendingIo = "none"
    /\ result = NoResult
    /\ ioCount = 0
    /\ trips = 0
    /\ delivered = NoResponse

IdleExpiry ==
    /\ params = [expires_in |-> NoneUsize, issued_at |-> 0]
    /\ now = 0
    /\ lastSync = NoSync
    /\ origExpires = NoneUsize
    /\ skewed = FALSE

IdlePkce == InitPkce

IdleEncode == InitEncode

Init == InitFlow /\ IdleExpiry /\ IdlePkce /\ IdleEncode
Next == NextFlow
Spec == Init /\ [][Next]_vars

InitE == InitExpiry /\ IdleFlow /\ IdlePkce /\ IdleEncode
SpecExpiry == InitE /\ [][NextExpiry]_vars

InitP == InitPkce /\ IdleFlow /\ IdleExpiry /\ IdleEncode
SpecPkce == InitP /\ [][NextPkce]_vars

\* the loop of main never stops between a resume and the I/O it asked for:
\* each iteration calls resume and hands the request to the transport
SpecLive == Init /\ [][Next]_vars /\ WF_vars(ResumeStep) /\ WF_vars(HandleIo)

InitEnc == InitEncode /\ IdleFlow /\ IdleExpiry /\ IdlePkce
SpecEncode == InitEnc /\ [][NextEncode]_vars

(***************************************************************************)
(* Properties                                                              *)
(***************************************************************************)
TerminalTags == {"success", "grant_error", "parse_error"}

\* C1: in the authorization-code flow the token request is built and sent
\* only if the state of the callback equals the state issued; a parsed
\* callback with another state, or with none, ends the flow with the
\* "states mismatch" panic, no coroutine built and no I/O request emitted.
C1_TokenRequestOnlyIfStateMatches ==
    flow = "code" =>
      /\ (co.built \/ ioCount > 0 \/ pc \in {"checked", "resume", "handle", "result", "done"})
            => (respParams.ok /\ respParams.state = issued /\ callback.state = issued)
      /\ (respParams.ok /\ respParams.kind = "code" /\ callback.state # issued /\ pc # "parsed")
            => (pc = "panicked" /\ panicMsg = "states mismatch" /\ ~co.built /\ ioCount = 0)

C1_Witness ==
    /\ flow = "code"
    /\ pc = "panicked"
    /\ panicMsg = "states mismatch"
    /\ issued \in StateValues
    /\ callback.state = NoState
    /\ callback.code # "absent"
    /\ ioCount = 0

\* C2: the terminal result of either resume is decided by the status class
\* first and the shape of the body second: 2xx and a success body give
\* success, non-2xx and an error body give the grant error, a body that does
\* not have the shape its status class selects gives a parse error; 2xx
\* never gives a grant error and non-2xx never gives success.
C2_TwoLevelClassification ==
    result.tag \in TerminalTags =>
      LET ok2xx == delivered.status >= 200 /\ delivered.status <= 299
          asSuccess == DeserializeSuccessParams(delivered.body).ok
          asError == DeserializeErrorParams(delivered.body).ok
      IN  /\ result.status = delivered.status
          /\ (ok2xx /\ asSuccess) => result.tag = "success"
          /\ (~ok2xx /\ asError) => result.tag = "grant_error"
          /\ (ok2xx /\ ~asSuccess) => result.tag = "parse_error"
          /\ (~ok2xx /\ ~asError) => result.tag = "parse_error"
          /\ ok2xx => result.tag # "grant_error"
          /\ ~ok2xx => result.tag # "success"

C2_Witness ==
    /\ result.tag = "grant_error"
    /\ delivered.status = 400
    /\ DeserializeSuccessParams(delivered.body).ok
    /\ DeserializeErrorParams(delivered.body).ok

\* C3: the first resume(None) of a fresh coroutine returns an I/O request,
\* and a terminal result is returned only after an I/O request was emitted
\* and its result fed back through resume.
C3_TerminalOnlyAfterRoundTrip ==
    /\ (co.built /\ result.tag # "none" /\ trips = 0) => result.tag = "io"
    /\ result.tag \in TerminalTags => (ioCount >= 1 /\ trips >= 1)

C3_Witness ==
    /\ co.built
    /\ trips = 0
    /\ ioCount = 1
    /\ result.tag = "io"
    /\ pendingIo = "write"

\* the whole seconds from issued_at to clock time t
WholeSecs(p, t) == (t - p.issued_at) \div TicksPerSec

\* C5: a sync_expires_in call on a value with expires_in = n whose issued_at
\* is e whole seconds in the past leaves expires_in = max(0, n - e).
C5_DecrementFlooredAtZero ==
    (lastSync.called /\ lastSync.before.some /\ lastSync.at >= params.issued_at) =>
      LET n == lastSync.before.v
          e == WholeSecs(params, lastSync.at)
      IN  /\ params.expires_in.some
          /\ params.expires_in.v = (IF n - e > 0 THEN n - e ELSE 0)

C5_Witness ==
    /\ lastSync.called
    /\ lastSync.before = SomeUsize(MaxExpires)
    /\ WholeSecs(params, lastSync.at) = 1
    /\ params.expires_in = SomeUsize(MaxExpires - 1)

\* C6: a second sync_expires_in call at the same clock instant as the call
\* before it leaves expires_in as the first call left it.
C6_IdempotentAtSameInstant ==
    (lastSync.called /\ lastSync.repeat) => params.expires_in = lastSync.before

\* C7: after sync_expires_in calls at non-decreasing clock times, expires_in
\* is max(0, original expires_in - whole seconds from issued_at to the
\* latest call), however many calls were made.
C7_RemainingLifetime ==
    (lastSync.called /\ ~skewed /\ origExpires.some) =>
      LET left == origExpires.v - WholeSecs(params, lastSync.at)
      IN  params.expires_in = SomeUsize(IF left > 0 THEN left ELSE 0)

\* C8: under sync_expires_in, whatever the clock does, expires_in once set
\* never grows, never becomes absent and never becomes negative.
C8_ExpiresInNonIncreasing ==
    /\ origExpires.some =>
          /\ params.expires_in.some
          /\ params.expires_in.v >= 0
          /\ params.expires_in.v <= origExpires.v
    /\ (lastSync.called /\ lastSync.before.some) =>
          /\ params.expires_in.some
          /\ params.expires_in.v >= 0
          /\ params.expires_in.v <= lastSync.before.v

C8_Witness ==
    /\ skewed
    /\ lastSync.called
    /\ lastSync.before.some
    /\ params.expires_in.some
    /\ params.expires_in.v < lastSync.before.v
    /\ params.expires_in.v < origExpires.v

\* C9: sync_expires_in leaves expires_in untouched when issued_at is later
\* than the clock, and leaves an absent expires_in absent.
C9_UntouchedOnSkewOrAbsent ==
    /\ (lastSync.called /\ lastSync.at < params.issued_at)
          => params.expires_in = lastSync.before
    /\ (lastSync.called /\ ~lastSync.before.some)
          => ~params.expires_in.some

C9_Witness ==
    /\ lastSync.called
    /\ lastSync.at + TicksPerSec <= params.issued_at
    /\ lastSync.before.some
    /\ lastSync.before.v > 0
    /\ params.expires_in = lastSync.before

\* the requested length clamped into [43,128]
ClampedLength(size) == IF size <= 43 THEN 43 ELSE IF size >= 128 THEN 128 ELSE size

InAlphabet(b) ==
    \/ b \in 65..90
    \/ b \in 97..122
    \/ b \in 48..57
    \/ b \in {45, 46, 95, 126}

\* C10: for every requested length in [0,255], PkceCodeVerifier::new returns
\* a verifier of exactly the requested length clamped into [43,128], every
\* character in the unreserved alphabet.
C10_VerifierLengthClamped ==
    (verifier.made /\ pkceOp = "new") =>
      /\ Len(verifier.bytes) = ClampedLength(verifier.size)
      /\ \A i \in 1..Len(verifier.bytes) : InAlphabet(verifier.bytes[i])

\* C11: every PkceCodeVerifier that exists, built by new, by default or by
\* parsing a text, holds between 43 and 128 bytes, all of them in the
\* unreserved alphabet; default() yields exactly 43.
C11_VerifierAlways43To128 ==
    verifier.made =>
      /\ Len(verifier.bytes) >= 43
      /\ Len(verifier.bytes) <= 128
      /\ \A i \in 1..Len(verifier.bytes) : InAlphabet(verifier.bytes[i])
      /\ pkceOp = "default" => Len(verifier.bytes) = 43

\* C12: parsing a text succeeds exactly when every byte of it is in the
\* unreserved alphabet, and the verifier then exposes the bytes of the text;
\* otherwise it fails with the leftmost byte outside the alphabet and no
\* verifier is produced.
C12_ParseAcceptsAlphabetOnly ==
    (parse.done /\ pkceOp = "from_str") =>
      LET t == parse.text
          allIn == \A i \in 1..Len(t) : InAlphabet(t[i])
      IN  /\ parse.ok <=> allIn
          /\ parse.ok => (verifier.made /\ verifier.bytes = t)
          /\ ~parse.ok =>
                /\ ~verifier.made
                /\ \E i \in 1..Len(t) :
                      /\ ~InAlphabet(t[i])
                      /\ \A j \in 1..(i - 1) : InAlphabet(t[j])
                      /\ parse.err = t[i]

C12_Witness ==
    /\ parse.done
    /\ pkceOp = "from_str"
    /\ ~parse.ok
    /\ parse.text = <<97, 32, 37>>
    /\ parse.err = 32
    /\ ~verifier.made

Keys(pairs) == [i \in DOMAIN pairs |-> pairs[i].k]

When(cond, names) == IF cond THEN names ELSE <<>>

\* the value of the first pair called `name`
ValueOf(pairs, name) ==
    pairs[CHOOSE i \in DOMAIN pairs :
             /\ pairs[i].k = name
             /\ \A j \in 1..(i - 1) : pairs[j].k # name].v

HasKey(pairs, name) == \E i \in DOMAIN pairs : pairs[i].k = name

\* C14: the authorization query is response_type=code, client_id, state iff
\* set, redirect_uri iff set, scope iff the set is non-empty, then
\* code_challenge and code_challenge_method together iff a challenge is set,
\* and nothing else; the method text is plain or S256 as the challenge says.
C14_AuthorizationQueryOrder ==
    authReq.made =>
        LET p == authReq.p
            q == authReq.query
        IN  /\ Keys(q) = <<"response_type", "client_id">>
                          \o When(p.state.some, <<"state">>)
                          \o When(p.redirect_uri.some, <<"redirect_uri">>)
                          \o When(p.scope # {}, <<"scope">>)
                          \o When(p.pkce_code_challenge.some,
                                  <<"code_challenge", "code_challenge_method">>)
            /\ q[1].v = Text(<<99, 111, 100, 101>>)
            /\ HasKey(q, "code_challenge") <=> HasKey(q, "code_challenge_method")
            /\ p.pkce_code_challenge.some =>
                  q[Len(q)].v = IF p.pkce_code_challenge.method = "Plain"
                                THEN Text(<<112, 108, 97, 105, 110>>)
                                ELSE Text(<<83, 50, 53, 54>>)

C14_Witness ==
    /\ authReq.made
    /\ Keys(authReq.query) = <<"response_type", "client_id", "state",
                               "redirect_uri", "scope", "code_challenge",
                               "code_challenge_method">>
    /\ authReq.p.pkce_code_challenge.method = "Sha256"
    /\ authReq.query[7].v = Text(<<83, 50, 53, 54>>)

\* a scope-token as the specification wants it: at least one byte, none of
\* them whitespace
WellFormedScopeToken(t) ==
    /\ t # <<>>
    /\ \A i \in DOMAIN t : t[i] \notin {9, 10, 11, 12, 13, 32}

\* C15: every scope token that reaches an encoded authorization request or
\* refresh request is non-empty and has no whitespace.
C15_ScopeTokensWellFormed ==
    /\ (authReq.made /\ HasKey(authReq.query, "scope")) =>
          \A i \in DOMAIN authReq.order : WellFormedScopeToken(authReq.order[i])
    /\ (refreshReq.made /\ HasKey(refreshReq.body, "scope")) =>
          \A i \in DOMAIN refreshReq.order : WellFormedScopeToken(refreshReq.order[i])

HexValue(c) == IF c \in 48..57 THEN c - 48 ELSE c - 55

\* form-url-decoding of a value: '+' is a space, %XX is the byte XX
RECURSIVE form_decode(_)
form_decode(bytes) ==
    IF bytes = <<>>
    THEN <<>>
    ELSE IF Head(bytes) = 43
    THEN <<32>> \o form_decode(Tail(bytes))
    ELSE IF Head(bytes) = 37 /\ Len(bytes) >= 3
    THEN <<16 * HexValue(bytes[2]) + HexValue(bytes[3])>>
           \o form_decode(SubSeq(bytes, 4, Len(bytes)))
    ELSE <<Head(bytes)>> \o form_decode(Tail(bytes))

\* the pieces of a text between single spaces
RECURSIVE SplitOnSpace(_)
SplitOnSpace(bytes) ==
    IF \A i \in DOMAIN bytes : bytes[i] # 32
    THEN <<bytes>>
    ELSE LET i == CHOOSE k \in DOMAIN bytes :
                     /\ bytes[k] = 32
                     /\ \A j \in 1..(k - 1) : bytes[j] # 32
         IN  <<SubSeq(bytes, 1, i - 1)>>
               \o SplitOnSpace(SubSeq(bytes, i + 1, Len(bytes)))

\* C16: decoding the authorization query and splitting the scope value on
\* single spaces gives back the client_id, the scope set (same tokens, same
\* number of them) and the state bytes that were put in.
C16_AuthorizationQueryRoundTrip ==
    authReq.made =>
        LET p == authReq.p
            q == authReq.query
            tokens == IF HasKey(q, "scope")
                      THEN SplitOnSpace(form_decode(ValueOf(q, "scope").bytes))
                      ELSE <<>>
        IN  /\ form_decode(ValueOf(q, "client_id").bytes) = p.client_id
            /\ {tokens[i] : i \in DOMAIN tokens} = p.scope
            /\ Len(tokens) = Cardinality(p.scope)
            /\ HasKey(q, "state") <=> p.state.some
            /\ p.state.some => form_decode(ValueOf(q, "state").bytes) = p.state.v

\* C17: the token-request body is grant_type=authorization_code, code,
\* redirect_uri iff set, client_id, code_verifier iff a verifier is set; it
\* has no code_challenge, scope or refresh_token pair.
C17_TokenBodyOrder ==
    tokenReq.made =>
        LET p == tokenReq.p
            q == tokenReq.body
        IN  /\ Keys(q) = <<"grant_type", "code">>
                          \o When(p.redirect_uri.some, <<"redirect_uri">>)
                          \o <<"client_id">>
                          \o When(p.pkce_code_verifier.some, <<"code_verifier">>)
            /\ q[1].v = Text(<<97, 117, 116, 104, 111, 114, 105, 122, 97, 116, 105, 111, 110, 95, 99, 111, 100, 101>>)
            /\ form_decode(ValueOf(q, "code").bytes) = p.code
            /\ form_decode(ValueOf(q, "client_id").bytes) = p.client_id
            /\ \A k \in {"code_challenge", "scope", "refresh_token"} : ~HasKey(q, k)

C17_Witness ==
    /\ tokenReq.made
    /\ Keys(tokenReq.body) = <<"grant_type", "code", "redirect_uri",
                               "client_id", "code_verifier">>
    /\ tokenReq.p.code = <<47, 43>>
    /\ tokenReq.body[2].v = Text(<<37, 50, 70, 37, 50, 66>>)

\* C18: the refresh-request body is grant_type=refresh_token, client_id,
\* refresh_token, scope iff the scope set is non-empty; it has no code,
\* redirect_uri, code_verifier or code_challenge pair.
C18_RefreshBodyOrder ==
    refreshReq.made =>
        LET p == refreshReq.p
            q == refreshReq.body
        IN  /\ Keys(q) = <<"grant_type", "client_id", "refresh_token">>
                          \o When(p.scopes # {}, <<"scope">>)
            /\ q[1].v = Text(<<114, 101, 102, 114, 101, 115, 104, 95, 116, 111, 107, 101, 110>>)
            /\ \A k \in {"code", "redirect_uri", "code_verifier", "code_challenge"} :
                  ~HasKey(q, k)

C18_Witness ==
    /\ refreshReq.made
    /\ refreshReq.p.scopes = {<<114>>, <<119>>}
    /\ refreshReq.order = <<<<119>>, <<114>>>>
    /\ refreshReq.body[4] = [k |-> "scope", v |-> Text(<<119, 43, 114>>)]

\* C19: a failure of the transport on a requested I/O reaches the caller as
\* it is: the step that meets it ends the run with that failure and leaves
\* the coroutine, its result and the count of I/O requests alone, no terminal
\* result stands for it, and no step of the coroutine follows it.
C19_TransportFailurePropagated ==
    [][/\ (panicMsg # "io::Error" /\ panicMsg' = "io::Error") =>
             /\ pc = "handle" /\ pc' = "panicked"
             /\ result.tag = "io"
             /\ UNCHANGED <<co, result, ioCount, arg, pendingIo>>
       /\ panicMsg = "io::Error" =>
             UNCHANGED <<co, result, ioCount, arg, pendingIo, panicMsg>>]_vars

C19_Witness ==
    /\ pc = "panicked"
    /\ panicMsg = "io::Error"
    /\ pendingIo = "read"
    /\ ioCount >= 2
    /\ result.tag = "io"

\* C20: in a flow with PKCE the code_verifier of the token request is the
\* verifier the code_challenge of the authorization request was derived
\* from.
C20_VerifierMatchesChallenge ==
    (stage = "token" /\ authReq.p.pkce_code_challenge.some) =>
        LET ch == authReq.p.pkce_code_challenge
        IN  /\ HasKey(tokenReq.body, "code_verifier")
            /\ ValueOf(authReq.query, "code_challenge")
                 = Serialized(PkceCodeChallenge_encode(
                      [ch EXCEPT !.verifier =
                          form_decode(ValueOf(tokenReq.body, "code_verifier").bytes)]))

\* the six error codes of a token endpoint error response
SixErrorCodes ==
    {"InvalidClient", "InvalidGrant", "InvalidRequest", "InvalidScope",
     "UnauthorizedClient", "UnsupportedGrantType"}

SixErrorNames ==
    {"invalid_client", "invalid_grant", "invalid_request", "invalid_scope",
     "unauthorized_client", "unsupported_grant_type"}

\* C21: a grant error carries one of the six error codes; a non-2xx response
\* whose error member is missing or is any other value gives a parse error;
\* status 400 with the body {"error":"invalid_grant"} gives the error
\* InvalidGrant with no description.
C21_GrantErrorCodeIsOneOfSix ==
    result.tag \in TerminalTags =>
      /\ result.tag = "grant_error" =>
            /\ result.v.error \in SixErrorCodes
            /\ delivered.body.error \in SixErrorNames
            /\ ~is_success(delivered.status)
      /\ (~is_success(delivered.status) /\ delivered.body.error \notin SixErrorNames)
            => result.tag = "parse_error"
      /\ (/\ delivered.status = 400
          /\ delivered.body.json
          /\ delivered.body.error = "invalid_grant"
          /\ delivered.body.error_description = "absent")
            => /\ result.tag = "grant_error"
               /\ result.v.error = "InvalidGrant"
               /\ result.v.error_description = "absent"

C21_Witness ==
    /\ result.tag = "grant_error"
    /\ delivered.status = 400
    /\ delivered.body = [json |-> TRUE, access_token |-> "absent",
                         token_type |-> "absent", expires_in |-> "absent",
                         error |-> "invalid_grant", error_description |-> "absent"]
    /\ result.v = [error |-> "InvalidGrant", error_description |-> "absent"]

\* C22: a parsed callback has a code or an error, never both and never
\* neither; a callback with neither fails with MalformedCallback and the flow
\* stops there; the parse hands on the state the callback carries, whatever
\* state was issued.
C22_CallbackCodeXorError ==
    respParams.kind # "none" =>
      /\ respParams.ok =>
            ((respParams.code # "absent") <=> (respParams.error = "absent"))
      /\ (callback.code = "absent" /\ callback.error = "absent") =>
            /\ ~respParams.ok
            /\ respParams.kind = "MalformedCallback"
            /\ pc = "panicked"
            /\ panicMsg = "from_url"
            /\ ~co.built
      /\ (callback.code # "absent" \/ callback.error # "absent") =>
            /\ respParams.ok
            /\ respParams.state = callback.state
      /\ panicMsg = "from_url" => ~(respParams.ok /\ respParams.kind = "code")

C22_Witness ==
    /\ callback.code = "absent"
    /\ callback.error = "absent"
    /\ callback.state = issued
    /\ issued # NoState
    /\ respParams.kind = "MalformedCallback"
    /\ pc = "panicked"

\* the scope pair of an encoded request against the scope set it was made
\* from: present iff the set is non-empty; its value neither starts nor ends
\* with a space and its pieces between single spaces are the tokens of the
\* set, each once
ScopePairWellJoined(pairs, set) ==
    /\ HasKey(pairs, "scope") <=> set # {}
    /\ HasKey(pairs, "scope") =>
          LET value == form_decode(ValueOf(pairs, "scope").bytes)
              pieces == SplitOnSpace(value)
          IN  /\ value # <<>> => (value[1] # 32 /\ value[Len(value)] # 32)
              /\ Len(pieces) = Cardinality(set)
              /\ {pieces[i] : i \in DOMAIN pieces} = set

\* C23: in the authorization request and in the refresh request the scope
\* pair is emitted iff the scope set is non-empty, and its value holds every
\* token of the set exactly once, one space between consecutive tokens, no
\* space before the first or after the last, in the set's enumeration order.
C23_ScopePairSpaceJoined ==
    /\ authReq.made => ScopePairWellJoined(authReq.query, authReq.p.scope)
    /\ refreshReq.made => ScopePairWellJoined(refreshReq.body, refreshReq.p.scopes)

\* C24: a failed build of the HTTP request is what new() returns: no
\* coroutine exists and no I/O request is emitted for that attempt; every
\* coroutine that has emitted an I/O request was built from a request with
\* Content-Type application/x-www-form-urlencoded whose body is the encoded
\* parameter struct.
C24_BuildFailureBeforeIo ==
    /\ panicMsg = "http::Error" =>
          /\ ~co.built
          /\ co = NoCoroutine
          /\ ioCount = 0
          /\ pendingIo = "none"
          /\ result = NoResult
    /\ ioCount > 0 =>
          /\ co.built
          /\ co.request.content_type = "application/x-www-form-urlencoded"
          /\ co.kind = "token" =>
                /\ tokenReq.made
                /\ co.request.body = tokenReq.body
                /\ Keys(co.request.body)[1] = "grant_type"
                /\ co.request.body[1].v = Text(Literal.authorization_code)
                /\ form_decode(ValueOf(co.request.body, "client_id").bytes)
                     = tokenReq.p.client_id
          /\ co.kind = "refresh" =>
                /\ refreshReq.made
                /\ co.request.body = refreshReq.body
                /\ co.request.body[1].v = Text(Literal.refresh_token)
                /\ form_decode(ValueOf(co.request.body, "client_id").bytes)
                     = refreshReq.p.client_id

C24_Witness ==
    /\ flow = "code"
    /\ pc = "panicked"
    /\ panicMsg = "http::Error"
    /\ tokenReq.made
    /\ co = NoCoroutine
    /\ ioCount = 0

\* C25: a coroutine whose caller keeps resuming it with the result of the
\* I/O last requested, over a transport that does not fail and delivers a
\* complete response, returns a terminal result after finitely many resume
\* calls.
C25_EventuallyTerminal ==
    (co.built /\ pc = "resume")
        ~> (result.tag \in TerminalTags \/ panicMsg = "io::Error")

C25_Witness ==
    /\ co.built
    /\ co.send.st = "Complete"
    /\ co.send.reads = MaxReads
    /\ trips = MaxReads + 1
    /\ ioCount = MaxReads + 1
    /\ result.tag \in TerminalTags
    /\ panicMsg # "io::Error"

====
